---- MODULE Spec2Model ----
(***************************************************************************)
(* A model of jmap/db/base.py: the BaseDB account store.  One BaseDB       *)
(* object wraps one sqlite connection; the model keeps the object's        *)
(* fields, the database as the connection sees it (db) and the database as *)
(* of the last COMMIT (disk).  Every table is a set of rows, a row is a    *)
(* function from column names to values.  The mtime column (a wall-clock   *)
(* string every write refreshes) and the columns no modelled statement     *)
(* reads are left out.                                                     *)
(***************************************************************************)
EXTENDS Integers, Sequences, FiniteSets, TLC

\* ------------------------------------------------------------- bounds
MaxMsgs == 3
MaxTime == 2
MaxModSeq == 3
MaxOps == 5
MaxMailOps == 4

MsgIds == 1..MaxMsgs
MailboxIds == {"a", "b"}
ThreadIds == {"t1", "t2"}
Headers == {"x"}

\* Python's None / SQL NULL of a text column.
None == "None"

\* ------------------------------------------------------------- schema
TableNames == {"jmessages", "jthreads", "jmailboxes", "jmessagemap",
               "jrawmessage", "jfiles", "jcalendars", "jevents",
               "jaddressbooks", "jcontactgroups", "jcontactgroupmap",
               "jcontacts", "jclientprefs", "jcalendarprefs"}

TABLE2GROUPS(table) ==
    CASE table = "jmessages" -> {"Email"}
      [] table = "jthreads" -> {"Thread"}
      [] table = "jmailboxes" -> {"Mailbox"}
      [] table = "jmessagemap" -> {"Mailbox"}
      [] table = "jrawmessage" -> {}
      [] table = "jfiles" -> {}
      [] table = "jcalendars" -> {"Calendar"}
      [] table = "jevents" -> {"CalendarEvent"}
      [] table = "jaddressbooks" -> {}
      [] table = "jcontactgroups" -> {"ContactGroup"}
      [] table = "jcontactgroupmap" -> {"ContactGroup"}
      [] table = "jcontacts" -> {"Contact"}
      [] table = "jclientprefs" -> {"ClientPreferences"}
      [] table = "jcalendarprefs" -> {"CalendarPreferences"}

Groups == UNION {TABLE2GROUPS(t) : t \in TableNames}

\* 'jstate' + group, the column commit writes for a group.
StateColumn(group) ==
    CASE group = "Email" -> "jstateEmail"
      [] group = "Thread" -> "jstateThread"
      [] group = "Mailbox" -> "jstateMailbox"
      [] group = "Calendar" -> "jstateCalendar"
      [] group = "CalendarEvent" -> "jstateCalendarEvent"
      [] group = "ContactGroup" -> "jstateContactGroup"
      [] group = "Contact" -> "jstateContact"
      [] group = "ClientPreferences" -> "jstateClientPreferences"
      [] group = "CalendarPreferences" -> "jstateCalendarPreferences"

\* The account row INSERT INTO account (email, displayname, highModSeq)
\* VALUES (?, ?, 1) creates: the other columns take their DEFAULTs.
AccountDefaults ==
    [lowModSeq |-> 0, highModSeq |-> 1,
     highModSeqMailbox |-> 1, highModSeqThread |-> 1, highModSeqEmail |-> 1,
     jstateContact |-> 1, jstateContactGroup |-> 1, jstateCalendar |-> 1,
     jstateCalendarEvent |-> 1, jstateUserPreferences |-> 1,
     jstateClientPreferences |-> 1, jstateCalendarPreferences |-> 1]

\* A row of each table with every column an INSERT may leave out.
DefaultRow(table) ==
    CASE table = "jmessages" ->
           [rowid |-> 0, msgid |-> 0, thrid |-> None, isDraft |-> FALSE,
            isUnread |-> FALSE, keywords |-> {}, inReplyTo |-> None,
            messageId |-> None, jcreated |-> 0, jmodseq |-> 0, deleted |-> 0]
      [] table = "jthreads" ->
           [thrid |-> None, data |-> << >>, jcreated |-> 0, jmodseq |-> 0,
            deleted |-> 0]
      [] table = "jmailboxes" ->
           [jmailboxid |-> None, totalEmails |-> 0, unreadEmails |-> 0,
            totalThreads |-> 0, jcreated |-> 0, jmodseq |-> 0, deleted |-> 0]
      [] table = "jmessagemap" ->
           [jmailboxid |-> None, msgid |-> 0, jcreated |-> 0, jmodseq |-> 0,
            deleted |-> 0]
      [] table = "account" -> AccountDefaults

Columns(table) == DOMAIN DefaultRow(table)

PrimaryKey(table) ==
    CASE table = "jmessages" -> {"msgid"}
      [] table = "jthreads" -> {"thrid"}
      [] table = "jmailboxes" -> {"jmailboxid"}
      [] table = "jmessagemap" -> {"jmailboxid", "msgid"}
      [] table = "account" -> {}

Matches(row, filter) == \A k \in DOMAIN filter : row[k] = filter[k]

NoFilter == << >>

EmptyDB ==
    [jmessages |-> {}, jthreads |-> {}, jmailboxes |-> {}, jmessagemap |-> {},
     account |-> {}]

\* ------------------------------------------------------------- state
VARIABLES
    modseq,                  \* self.modseq
    tables,                  \* self.tables: table -> modseq it was touched at
    backfilling,             \* self.backfilling
    updated_mailbox_counts,  \* self.updated_mailbox_counts: jmailboxid -> modseq
    change_cb,               \* whether self.change_cb is set
    in_transaction,          \* self.dbh.in_transaction
    db,                      \* the tables as this connection reads them
    disk,                    \* the tables as of the last COMMIT
    txn_dirty,               \* <<table, value>> of every dirty() call since the
                             \* last transaction ended
    committed,               \* the txn_dirty of each committed transaction that
                             \* dirtied, in commit order
    last,                    \* the last call: its name, arguments and outcome
    ops                      \* calls made so far

vars == <<modseq, tables, backfilling, updated_mailbox_counts, change_cb,
          in_transaction, db, disk, txn_dirty, committed, last, ops>>

\* The store a call starts from: the object's fields and the call's own
\* outcome (exc: the exception it raised; writes: INSERT/UPDATE statements
\* it executed; cb: the change_cb invocations; ret, truthy, vals: the last
\* callee's return value, its truth value, and the caller's values dict as
\* the callee left it).
Cur ==
    [modseq |-> modseq, tables |-> tables, backfilling |-> backfilling,
     updated_mailbox_counts |-> updated_mailbox_counts,
     change_cb |-> change_cb, in_transaction |-> in_transaction,
     db |-> db, disk |-> disk, txn_dirty |-> txn_dirty,
     committed |-> committed,
     exc |-> "none", writes |-> 0, cb |-> << >>, ret |-> 0,
     truthy |-> FALSE, vals |-> << >>]

Ok(s) == s.exc = "none"

Raise(s, e) == [s EXCEPT !.exc = e]

\* ------------------------------------------------------------- record store
\* SELECT * FROM account LIMIT 1; the row is created when there is none.
get_user(s) ==
    IF s.db.account # {} THEN s
    ELSE [s EXCEPT !.db.account = {AccountDefaults},
                   !.in_transaction = TRUE,
                   !.writes = @ + 1]

User(s) == CHOOSE row \in s.db.account : TRUE

\* A plausible slip: a fresh value on every call.
dirty_fresh(s, table) ==
    IF ~Ok(s) THEN s
    ELSE LET u == get_user(s)
             m == IF s.modseq = 0 THEN User(u).highModSeq + 1 ELSE s.modseq + 1
         IN [u EXCEPT !.modseq = m,
                      !.tables = (table :> m) @@ @,
                      !.txn_dirty = @ \cup {<<table, m>>},
                      !.ret = m]

dirty(s, table) ==
    IF ~Ok(s) THEN s
    ELSE LET s1 == IF s.modseq = 0
                   THEN LET u == get_user(s)
                        IN [u EXCEPT !.modseq = User(u).highModSeq + 1]
                   ELSE s
         IN [s1 EXCEPT !.tables = (table :> s1.modseq) @@ @,
                       !.txn_dirty = @ \cup {<<table, s1.modseq>>},
                       !.ret = s1.modseq]

NextRowid(rows) ==
    IF rows = {} THEN 1
    ELSE 1 + (CHOOSE n \in {r.rowid : r \in rows} :
                  \A r \in rows : r.rowid <= n)

\* INSERT OR REPLACE: a row with the same primary key is removed first.
dinsert(s, table, values) ==
    IF ~Ok(s) THEN s
    ELSE IF ~(DOMAIN values \subseteq Columns(table))
    THEN Raise(s, "OperationalError")
    ELSE LET rows == s.db[table]
             kept == {r \in rows :
                         \E k \in PrimaryKey(table) : r[k] # values[k]}
             given == IF "rowid" \in Columns(table)
                      THEN [rowid |-> NextRowid(rows)] @@ values
                      ELSE values
             row == given @@ DefaultRow(table)
         IN [s EXCEPT !.db[table] = kept \cup {row},
                      !.in_transaction = TRUE,
                      !.writes = @ + 1,
                      !.ret = IF "rowid" \in Columns(table)
                              THEN row.rowid ELSE 0]

dmake(s, table, values) ==
    LET s1 == dirty(s, table)
        stamped == [jcreated |-> s1.ret, jmodseq |-> s1.ret, deleted |-> 0]
                   @@ values
    IN [dinsert(s1, table, stamped) EXCEPT !.vals = stamped]

\* UPDATE table SET ... WHERE ...: the statement is prepared first, and a
\* column the table lacks fails it before anything runs.
dupdate(s, table, values, filter) ==
    IF ~Ok(s) THEN s
    ELSE IF ~(DOMAIN values \subseteq Columns(table))
    THEN Raise(s, "OperationalError")
    ELSE [s EXCEPT !.db[table] =
                       {IF Matches(r, filter) THEN values @@ r ELSE r :
                           r \in @},
                   !.in_transaction = TRUE,
                   !.writes = @ + 1,
                   !.truthy = FALSE]

NullableColumns == {"thrid", "inReplyTo", "messageId", "jmailboxid"}

IsNone(key, value) == key \in NullableColumns /\ value = None

\* filter_values: the SELECT of no column, or of a column the table lacks,
\* fails; the for loop has no break, so its else branch always runs and
\* data is {}; a key dropped from values while values.keys() is iterated
\* raises RuntimeError at the next step of the iteration.
filter_values(s, table, values, filter) ==
    IF ~Ok(s) THEN s
    ELSE IF DOMAIN values = {}
            \/ ~((DOMAIN values \cup DOMAIN filter) \subseteq Columns(table))
    THEN Raise(s, "OperationalError")
    ELSE LET data == << >>
             dropped == {key \in DOMAIN values :
                            \/ key \in DOMAIN filter
                            \/ IF key \in DOMAIN data
                               THEN data[key] = values[key]
                               ELSE IsNone(key, values[key])}
         IN IF dropped # {} THEN Raise(s, "RuntimeError")
            ELSE [s EXCEPT !.vals = values]

dmaybeupdate(s, table, values, filter) ==
    LET s1 == filter_values(s, table, values, filter)
    IN IF ~Ok(s1) THEN s1
       ELSE IF DOMAIN s1.vals = {} THEN [s1 EXCEPT !.truthy = FALSE]
       ELSE dupdate(s1, table, s1.vals, filter)

ddirty(s, table, values, filter) ==
    LET s1 == dirty(s, table)
    IN dupdate(s1, table, [jmodseq |-> s1.ret] @@ values, filter)

\* filtered and values are the same dict: the stamp lands in the caller's.
dmaybedirty(s, table, values, filter) ==
    LET s1 == filter_values(s, table, values, filter)
    IN IF ~Ok(s1) THEN s1
       ELSE IF DOMAIN s1.vals = {} THEN [s1 EXCEPT !.truthy = FALSE]
       ELSE LET s2 == dirty(s1, table)
                stamped == [jmodseq |-> s2.ret] @@ s1.vals
            IN [dupdate(s2, table, stamped, filter) EXCEPT !.vals = stamped]

\* dnuke: [modseq] + filter.values() raises TypeError after dirty().
dnuke(s, table, filter) == Raise(dirty(s, table), "TypeError")

\* ------------------------------------------------------------- commit
LiveIn(d, jmailboxid) ==
    {m \in d.jmessages :
        /\ m.deleted = 0
        /\ \E mm \in d.jmessagemap :
              /\ mm.msgid = m.msgid
              /\ mm.jmailboxid = jmailboxid
              /\ mm.deleted = 0}

LiveAnywhere(d) ==
    {m \in d.jmessages :
        /\ m.deleted = 0
        /\ \E mm \in d.jmessagemap : mm.msgid = m.msgid /\ mm.deleted = 0}

CountTotalEmails(d, jmailboxid) ==
    Cardinality({m.msgid : m \in LiveIn(d, jmailboxid)})

CountUnreadEmails(d, jmailboxid) ==
    Cardinality({m.msgid : m \in {x \in LiveIn(d, jmailboxid) : x.isUnread}})

CountTotalThreads(d, jmailboxid) ==
    Cardinality({m.thrid : m \in
        {x \in LiveIn(d, jmailboxid) :
            x.thrid \in {u.thrid : u \in {y \in LiveAnywhere(d) : y.isUnread}}}})

RecountMailbox(s, jmailboxid) ==
    LET update == [totalEmails |-> CountTotalEmails(s.db, jmailboxid),
                   unreadEmails |-> CountUnreadEmails(s.db, jmailboxid),
                   totalThreads |-> CountTotalThreads(s.db, jmailboxid)]
    IN dmaybedirty(s, "jmailboxes", update, [jmailboxid |-> jmailboxid])

RECURSIVE RecountAll(_, _)
RecountAll(s, pending) ==
    IF pending = {} THEN s
    ELSE LET jmailboxid == CHOOSE x \in pending : TRUE
         IN RecountAll(RecountMailbox(s, jmailboxid), pending \ {jmailboxid})

\* self as change_cb(self, map, state) finds it.
Passed(s) ==
    [updated_mailbox_counts |-> s.updated_mailbox_counts,
     in_transaction |-> s.in_transaction, db |-> s.db, disk |-> s.disk]

PublishState(s) ==
    LET state == s.modseq
        groups == UNION {TABLE2GROUPS(t) : t \in DOMAIN s.tables}
        map == [g \in groups |-> state]
        dbdata == [k \in {"highModSeq"} \cup {StateColumn(g) : g \in groups}
                      |-> state]
        s1 == dupdate(s, "account", dbdata, NoFilter)
    IN IF Ok(s1) /\ ~s.backfilling
       THEN [s1 EXCEPT !.cb = Append(@, [map |-> map, state |-> state,
                                         store |-> Passed(s1)])]
       ELSE s1

commit(s) ==
    IF ~s.in_transaction THEN s
    ELSE LET s1 == RecountAll(s, DOMAIN s.updated_mailbox_counts)
             s2 == IF Ok(s1)
                   THEN [s1 EXCEPT !.updated_mailbox_counts = << >>]
                   ELSE s1
             s3 == IF s2.modseq # 0 /\ s2.change_cb THEN PublishState(s2)
                   ELSE s2
         IN IF ~Ok(s3) THEN s3
            ELSE [s3 EXCEPT !.disk = s3.db,
                            !.in_transaction = FALSE,
                            !.committed = IF s3.txn_dirty = {} THEN @
                                          ELSE Append(@, s3.txn_dirty),
                            !.txn_dirty = {}]

rollback(s) ==
    IF ~s.in_transaction THEN s
    ELSE [s EXCEPT !.db = s.disk, !.in_transaction = FALSE, !.txn_dirty = {}]

reset(s) ==
    IF ~s.in_transaction THEN s
    ELSE [s EXCEPT !.db = s.disk, !.in_transaction = FALSE, !.txn_dirty = {}]

begin(s) ==
    IF ~s.in_transaction THEN [s EXCEPT !.in_transaction = TRUE]
    ELSE s

\* ------------------------------------------------------------- threads
Truthy(text) == text # None /\ text # ""

RECURSIVE ByRowid(_)
ByRowid(rows) ==
    IF rows = {} THEN << >>
    ELSE LET first == CHOOSE r \in rows : \A o \in rows : r.rowid <= o.rowid
         IN <<first>> \o ByRowid(rows \ {first})

\* SELECT msgid,isDraft,inReplyTo,messageId FROM jmessages
\*   WHERE thrid=? AND deleted=0, in rowid order.
ThreadMessages(d, thrid) ==
    ByRowid({m \in d.jmessages : m.thrid = thrid /\ m.deleted = 0})

Ids(messages) == [i \in 1..Len(messages) |-> messages[i].msgid]

\* drafts[key]: the drafts replying to key, in the order met.
Drafts(messages, key) ==
    Ids(SelectSeq(messages,
                  LAMBDA m : m.isDraft /\ Truthy(m.inReplyTo)
                             /\ m.inReplyTo = key))

\* The second loop: each non-draft, then the drafts replying to it.
RECURSIVE PlaceNonDrafts(_, _)
PlaceNonDrafts(messages, i) ==
    IF i > Len(messages) THEN << >>
    ELSE LET msg == messages[i]
             here == IF msg.isDraft THEN << >>
                     ELSE <<msg.msgid>> \o
                          (IF Truthy(msg.messageId)
                           THEN Drafts(messages, msg.messageId)
                           ELSE << >>)
         IN here \o PlaceNonDrafts(messages, i + 1)

Range(seq) == {seq[i] : i \in 1..Len(seq)}

\* The third loop: the messages not placed yet.
Unlinked(messages, seenmsgs) ==
    Ids(SelectSeq(messages, LAMBDA m : m.msgid \notin seenmsgs))

\* A plausible slip: the drafts are not linked to what they reply to.
ThreadOrder_unlinked(messages) ==
    Ids(SelectSeq(messages, LAMBDA m : ~m.isDraft))
    \o Ids(SelectSeq(messages, LAMBDA m : m.isDraft))

ThreadOrder(messages) ==
    LET msgs == PlaceNonDrafts(messages, 1)
    IN msgs \o Unlinked(messages, Range(msgs))

\* A plausible slip: a thread left without live messages is not rewritten.
touch_thread_keeps_empty(s, msgid) ==
    IF ~Ok(s) THEN s
    ELSE LET found == {m \in s.db.jmessages : m.msgid = msgid}
         IN IF found = {} THEN Raise(s, "TypeError")
            ELSE LET thrid == (CHOOSE m \in found : TRUE).thrid
                     messages == ThreadMessages(s.db, thrid)
                 IN IF messages = << >> THEN s
                    ELSE IF \E t \in s.db.jthreads : t.thrid = thrid
                    THEN dmaybedirty(s, "jthreads",
                                     [deleted |-> 0,
                                      data |-> ThreadOrder(messages)],
                                     [thrid |-> thrid])
                    ELSE dmake(s, "jthreads",
                               [thrid |-> thrid,
                                data |-> ThreadOrder(messages)])

touch_thread_by_msgid(s, msgid) ==
    IF ~Ok(s) THEN s
    ELSE LET found == {m \in s.db.jmessages : m.msgid = msgid}
         IN IF found = {} THEN Raise(s, "TypeError")
            ELSE LET thrid == (CHOOSE m \in found : TRUE).thrid
                     messages == ThreadMessages(s.db, thrid)
                 IN IF messages = << >>
                    THEN dmaybedirty(s, "jthreads",
                                     [deleted |-> 1, data |-> << >>],
                                     [thrid |-> thrid])
                    ELSE IF \E t \in s.db.jthreads : t.thrid = thrid
                    THEN dmaybedirty(s, "jthreads",
                                     [deleted |-> 0,
                                      data |-> ThreadOrder(messages)],
                                     [thrid |-> thrid])
                    ELSE dmake(s, "jthreads",
                               [thrid |-> thrid,
                                data |-> ThreadOrder(messages)])

\* ------------------------------------------------------------- messages
update_mailbox_counts(s, jmailboxid, jmodseq) ==
    IF ~Ok(s) THEN s
    ELSE [s EXCEPT !.updated_mailbox_counts = (jmailboxid :> jmodseq) @@ @]

\* data['jmodseq'] of a dict the callee may not have stamped.
StampOf(s) ==
    IF ~Ok(s) THEN s
    ELSE IF "jmodseq" \in DOMAIN s.vals THEN [s EXCEPT !.ret = s.vals.jmodseq]
    ELSE Raise(s, "KeyError")

add_message_to_mailbox(s, msgid, jmailboxid) ==
    LET s1 == StampOf(dmake(s, "jmessagemap",
                            [msgid |-> msgid, jmailboxid |-> jmailboxid]))
        s2 == update_mailbox_counts(s1, jmailboxid, s1.ret)
    IN ddirty(s2, "jmessages", << >>, [msgid |-> msgid])

delete_message_from_mailbox(s, msgid, jmailboxid, now) ==
    LET s1 == StampOf(dmaybedirty(s, "jmessagemap", [deleted |-> now],
                                  [msgid |-> msgid,
                                   jmailboxid |-> jmailboxid]))
        s2 == update_mailbox_counts(s1, jmailboxid, s1.ret)
    IN ddirty(s2, "jmessages", << >>, [msgid |-> msgid])

RECURSIVE AddToEach(_, _, _)
AddToEach(s, msgid, mailboxes) ==
    IF mailboxes = {} THEN s
    ELSE LET mailbox == CHOOSE x \in mailboxes : TRUE
         IN AddToEach(add_message_to_mailbox(s, msgid, mailbox), msgid,
                      mailboxes \ {mailbox})

RECURSIVE DeleteFromEach(_, _, _, _)
DeleteFromEach(s, msgid, mailboxes, now) ==
    IF mailboxes = {} THEN s
    ELSE LET mailbox == CHOOSE x \in mailboxes : TRUE
         IN DeleteFromEach(delete_message_from_mailbox(s, msgid, mailbox, now),
                           msgid, mailboxes \ {mailbox}, now)

add_message(s, data, mailboxes) ==
    IF mailboxes = {} THEN s
    ELSE LET s1 == dmake(s, "jmessages", data)
             s2 == AddToEach(s1, data.msgid, mailboxes)
         IN touch_thread_by_msgid(s2, data.msgid)

\* dgetcol('jmessagemap', {'msgid': msgid, 'deleted': 0}, 'jmailboxid')
OldIds(s, msgid) ==
    {mm.jmailboxid : mm \in {x \in s.db.jmessagemap :
                                 x.msgid = msgid /\ x.deleted = 0}}

\* The loop over newids: a kept mailbox is registered when bump is true,
\* with data['jmodseq'] of the caller's data, which holds no such key.
RECURSIVE ChangeEach(_, _, _, _, _, _)
ChangeEach(s, msgid, data, newids, old, bump) ==
    IF newids = {} \/ ~Ok(s) THEN s
    ELSE LET jmailboxid == CHOOSE x \in newids : TRUE
             s1 == IF jmailboxid \in old
                   THEN IF bump
                        THEN IF "jmodseq" \in DOMAIN data
                             THEN update_mailbox_counts(s, jmailboxid,
                                                        data.jmodseq)
                             ELSE Raise(s, "KeyError")
                        ELSE s
                   ELSE add_message_to_mailbox(s, msgid, jmailboxid)
         IN ChangeEach(s1, msgid, data, newids \ {jmailboxid}, old, bump)

\* A plausible slip: the memberships left out of newids are kept.
change_message_keeps_old(s, msgid, data, newids, now) ==
    LET keywords == data.keywords
        s1 == dmaybedirty(s, "jmessages",
                          [keywords |-> keywords,
                           isDraft |-> "draft" \in keywords,
                           isUnread |-> "seen" \notin keywords],
                          [msgid |-> msgid])
        bump == s1.truthy
        old == OldIds(s1, msgid)
        s2 == ChangeEach(s1, msgid, data, newids, old, bump)
    IN touch_thread_by_msgid(s2, msgid)

change_message(s, msgid, data, newids, now) ==
    LET keywords == data.keywords
        s1 == dmaybedirty(s, "jmessages",
                          [keywords |-> keywords,
                           isDraft |-> "draft" \in keywords,
                           isUnread |-> "seen" \notin keywords],
                          [msgid |-> msgid])
        bump == s1.truthy
        old == OldIds(s1, msgid)
        s2 == ChangeEach(s1, msgid, data, newids, old, bump)
        s3 == DeleteFromEach(s2, msgid, old \ newids, now)
    IN touch_thread_by_msgid(s3, msgid)

\* A plausible slip: the message is marked but its memberships are kept.
delete_message_keeps_memberships(s, msgid, now) ==
    LET s1 == dmaybedirty(s, "jmessages", [deleted |-> now],
                          [msgid |-> msgid])
    IN touch_thread_by_msgid(s1, msgid)

delete_message(s, msgid, now) ==
    LET s1 == dmaybedirty(s, "jmessages", [deleted |-> now],
                          [msgid |-> msgid])
        s2 == DeleteFromEach(s1, msgid, OldIds(s1, msgid), now)
    IN touch_thread_by_msgid(s2, msgid)

\* ------------------------------------------------------------- construction
\* The mailboxes of the database file: those the calls name and one no
\* call names.
ProvisionedIds == MailboxIds \cup {"c"}

\* The database file the store is opened on: the provisioned mailboxes with
\* zero counters, no message, no account row yet.
Provisioned ==
    [EmptyDB EXCEPT !.jmailboxes =
        {[jmailboxid |-> b, jcreated |-> 1, jmodseq |-> 1] @@
         DefaultRow("jmailboxes") : b \in ProvisionedIds}]

NoCall == [op |-> "init", args |-> << >>, exc |-> "none", writes |-> 0,
           cb |-> << >>, truthy |-> FALSE]

\* __init__: connect, BEGIN DEFERRED, and the fields' first values.
Fresh ==
    [modseq |-> 0, tables |-> << >>, backfilling |-> FALSE,
     updated_mailbox_counts |-> << >>, change_cb |-> FALSE,
     in_transaction |-> TRUE, db |-> Provisioned, disk |-> Provisioned,
     txn_dirty |-> {}, committed |-> << >>,
     exc |-> "none", writes |-> 0, cb |-> << >>, ret |-> 0,
     truthy |-> FALSE, vals |-> << >>]

Outcome(s, op, args) ==
    [op |-> op, args |-> args, exc |-> s.exc, writes |-> s.writes,
     cb |-> s.cb, truthy |-> s.truthy]

Is(s, call) ==
    /\ modseq = s.modseq
    /\ tables = s.tables
    /\ backfilling = s.backfilling
    /\ updated_mailbox_counts = s.updated_mailbox_counts
    /\ change_cb = s.change_cb
    /\ in_transaction = s.in_transaction
    /\ db = s.db
    /\ disk = s.disk
    /\ txn_dirty = s.txn_dirty
    /\ committed = s.committed
    /\ last = call
    /\ ops = 0

Init == Is(Fresh, NoCall)

Apply(s, op, args) ==
    /\ modseq' = s.modseq
    /\ tables' = s.tables
    /\ backfilling' = s.backfilling
    /\ updated_mailbox_counts' = s.updated_mailbox_counts
    /\ change_cb' = s.change_cb
    /\ in_transaction' = s.in_transaction
    /\ db' = s.db
    /\ disk' = s.disk
    /\ txn_dirty' = s.txn_dirty
    /\ committed' = s.committed
    /\ last' = Outcome(s, op, args)

Count == ops' = ops + 1

\* ------------------------------------------------------------- inputs
\* Message identifiers are handed out in order; a call may also name the
\* next, still unused one (a message that does not exist).
NextMsgId == Cardinality(db.jmessages) + 1

TargetIds == {m \in MsgIds : m <= NextMsgId}

KeywordSets == SUBSET {"draft", "seen"}

\* The data add_message is given for a new message, as import builds it.
NewMessage(msgid, thrid, keywords, inReplyTo, messageId) ==
    [msgid |-> msgid, thrid |-> thrid, keywords |-> keywords,
     isDraft |-> "draft" \in keywords, isUnread |-> "seen" \notin keywords,
     inReplyTo |-> inReplyTo, messageId |-> messageId]

\* datetime.now().timestamp(): the clock is read once a call and has
\* advanced by one tick since the latest stamp in the database (up to
\* MaxTime, where it stays).
Stamps == {r.deleted : r \in db.jmessages \cup db.jmessagemap
                               \cup disk.jmessages \cup disk.jmessagemap}

Latest == CHOOSE t \in Stamps \cup {0} : \A u \in Stamps : u <= t

Now == IF Latest < MaxTime THEN Latest + 1 ELSE MaxTime

\* ------------------------------------------------------------- calls
Begin == Apply(begin(Cur), "begin", << >>)

Commit == Apply(commit(Cur), "commit", << >>)

Rollback == Apply(rollback(Cur), "rollback", << >>)

Reset == Apply(reset(Cur), "reset", << >>)

\* A new BaseDB on the same file: the old connection's open transaction is
\* lost, the fields start over.
Reopen ==
    /\ \A row \in disk.account : row.highModSeq < MaxModSeq
    /\ Apply([Cur EXCEPT !.modseq = 0, !.tables = << >>,
                         !.backfilling = FALSE,
                         !.updated_mailbox_counts = << >>,
                         !.change_cb = FALSE, !.in_transaction = TRUE,
                         !.db = disk, !.txn_dirty = {}],
             "reopen", << >>)

SetChangeCb ==
    \E on \in BOOLEAN :
        /\ on # change_cb
        /\ Apply([Cur EXCEPT !.change_cb = on], "set_change_cb", <<on>>)

SetBackfilling ==
    \E on \in BOOLEAN :
        /\ on # backfilling
        /\ Apply([Cur EXCEPT !.backfilling = on], "set_backfilling", <<on>>)

Dirty(Tables) ==
    \E table \in Tables : Apply(dirty(Cur, table), "dirty", <<table>>)

DNuke(Mailboxes) ==
    \E b \in Mailboxes :
        Apply(dnuke(Cur, "jmailboxes", [jmailboxid |-> b]), "dnuke", <<b>>)

DMaybeUpdate(Targets) ==
    \E m \in Targets, value \in Headers \cup {None} :
        Apply(dmaybeupdate(Cur, "jmessages", [inReplyTo |-> value],
                           [msgid |-> m]),
              "dmaybeupdate", <<m, value>>)

DMaybeDirty(Targets) ==
    \E m \in Targets, value \in BOOLEAN :
        Apply(dmaybedirty(Cur, "jmessages", [isUnread |-> value],
                          [msgid |-> m]),
              "dmaybedirty", <<m, value>>)

AddMessage(Threads, Keywords, Hdrs, MailboxSets) ==
    /\ NextMsgId \in MsgIds
    /\ \E thrid \in Threads, keywords \in Keywords,
          inReplyTo \in Hdrs, messageId \in Hdrs, mailboxes \in MailboxSets :
          LET data == NewMessage(NextMsgId, thrid, keywords, inReplyTo,
                                     messageId)
          IN Apply(add_message(Cur, data, mailboxes), "add_message",
                   <<data.msgid, mailboxes>>)

AddMessageToMailbox(Targets) ==
    \E m \in Targets, b \in MailboxIds :
        Apply(add_message_to_mailbox(Cur, m, b), "add_message_to_mailbox",
              <<m, b>>)

DeleteMessageFromMailbox(Targets) ==
    \E m \in Targets, b \in MailboxIds :
        Apply(delete_message_from_mailbox(Cur, m, b, Now),
              "delete_message_from_mailbox", <<m, b>>)

ChangeMessage(Targets, Keywords, MailboxSets) ==
    \E m \in Targets, keywords \in Keywords, newids \in MailboxSets :
        Apply(change_message(Cur, m, [keywords |-> keywords], newids, Now),
              "change_message", <<m, newids>>)

DeleteMessage(Targets) ==
    \E m \in Targets :
        Apply(delete_message(Cur, m, Now), "delete_message", <<m>>)

TouchThread(Targets) ==
    \E m \in Targets :
        Apply(touch_thread_by_msgid(Cur, m), "touch_thread_by_msgid", <<m>>)

\* ------------------------------------------------------------- the store
\* The change tracker and the transaction boundary, with one shape of
\* message.
Next ==
    /\ ops < MaxOps
    /\ Count
    /\ \/ Begin
       \/ Commit
       \/ Rollback
       \/ Reset
       \/ Reopen
       \/ SetChangeCb
       \/ SetBackfilling
       \/ Dirty({"jcontacts", "jfiles"})
       \/ DNuke({"a"})
       \/ DMaybeUpdate(TargetIds)
       \/ DMaybeDirty(TargetIds)
       \/ AddMessage({"t1"}, {{}}, {None}, {{"a"}, {"a", "b"}})
       \/ ChangeMessage(TargetIds, {{}, {"seen"}}, {{"a"}, {"b"}})
       \/ DeleteMessage(TargetIds)

Spec == Init /\ [][Next]_vars

\* ------------------------------------------------------------- the mail
\* The message and mailbox operations between commits; a message arrives
\* unread and change_message marks it seen or unseen.
NextMail ==
    /\ ops < MaxMailOps
    /\ Count
    /\ \/ Commit
       \/ AddMessage(ThreadIds, {{}}, {None}, SUBSET MailboxIds)
       \/ AddMessageToMailbox(TargetIds)
       \/ DeleteMessageFromMailbox(TargetIds)
       \/ ChangeMessage(TargetIds, {{}, {"seen"}}, SUBSET MailboxIds)
       \/ DeleteMessage(TargetIds)
       \/ TouchThread(TargetIds)

SpecMail == Init /\ [][NextMail]_vars

\* ------------------------------------------------------------- arrivals
\* Messages arriving: added, filed in a further mailbox, committed.
MaxArrivalOps == 5

NextArrival ==
    /\ ops < MaxArrivalOps
    /\ Count
    /\ \/ Commit
       \/ AddMessage(ThreadIds, {{}}, {None}, {{"a"}, {"a", "b"}})
       \/ AddMessageToMailbox(TargetIds)

SpecArrival == Init /\ [][NextArrival]_vars

\* ------------------------------------------------------------- the threads
\* One thread built by add_message calls with every shape of message, then
\* recomputed or thinned out.
MaxThreadMsgs == 3

MaxThreadDeletes == 1

ThreadHeaders == {"x", "y"}

\* The header the recomputation does not read for the kind of message
\* (messageId of a draft, inReplyTo of a non-draft) is absent or "x".
ThreadShapes ==
    {shape \in [isDraft : BOOLEAN, inReplyTo : ThreadHeaders \cup {None},
                messageId : ThreadHeaders \cup {None}] :
        IF shape.isDraft THEN shape.messageId # "y"
        ELSE shape.inReplyTo # "y"}

ShapedMessage(msgid, shape) ==
    NewMessage(msgid, "t1", IF shape.isDraft THEN {"draft"} ELSE {},
               shape.inReplyTo, shape.messageId)

NextCall(s) ==
    [s EXCEPT !.exc = "none", !.writes = 0, !.cb = << >>, !.ret = 0,
              !.truthy = FALSE, !.vals = << >>]

RECURSIVE AddAll(_, _, _)
AddAll(s, shapes, i) ==
    IF i > Len(shapes) THEN s
    ELSE AddAll(add_message(NextCall(s), ShapedMessage(i, shapes[i]), {"a"}),
                shapes, i + 1)

InitThread ==
    \E n \in 0..MaxThreadMsgs :
        \E shapes \in [1..n -> ThreadShapes] :
            LET s == AddAll(Fresh, shapes, 1)
            IN Is(s, IF n = 0 THEN NoCall
                     ELSE Outcome(s, "add_message", <<n, {"a"}>>))

LiveIds == {m.msgid : m \in {x \in db.jmessages : x.deleted = 0}}

DeletedIds == {m.msgid : m \in {x \in db.jmessages : x.deleted # 0}}

NextThread ==
    /\ UNCHANGED ops
    /\ \/ TouchThread({1, NextMsgId} \cap MsgIds)
       \/ /\ Cardinality(DeletedIds) < MaxThreadDeletes
          /\ DeleteMessage(LiveIds)

SpecThread == InitThread /\ [][NextThread]_vars

\* ------------------------------------------------------------- claims
TxnValues == {p[2] : p \in txn_dirty}

TxnTables == {p[1] : p \in txn_dirty}

StampedTables == {"jmessages", "jthreads", "jmailboxes", "jmessagemap"}

SameKey(table, r, o) == \A k \in PrimaryKey(table) : r[k] = o[k]

\* The rows of a table created or stamped anew since the last COMMIT.
Stamped(table) ==
    {r \in db[table] :
        \A o \in disk[table] :
            SameKey(table, r, o) =>
                (o.jmodseq # r.jmodseq \/ o.jcreated # r.jcreated)}

\* The call that made this step.
Called(op) == last'.op = op /\ ops' # ops

\* C1: within one transaction every dirty() call, whatever method reaches
\* it (the recount at commit included), returns the same value, and every
\* row created or stamped in the transaction carries that value as jmodseq.
C1_OneModseqPerTransaction ==
    /\ Cardinality(TxnValues) <= 1
    /\ \A i \in 1..Len(committed) :
          Cardinality({p[2] : p \in committed[i]}) = 1
    /\ \A table \in StampedTables :
          \A r \in Stamped(table) : r.jmodseq \in TxnValues

\* C1 happens: one open transaction has dirtied three collections through
\* several mutation calls and all their rows carry its one value.
C1_Witness ==
    /\ in_transaction
    /\ Cardinality(TxnValues) = 1
    /\ {"jmessages", "jmessagemap", "jthreads"} \subseteq TxnTables
    /\ \A table \in {"jmessages", "jmessagemap", "jthreads"} :
          Stamped(table) # {}
    /\ Cardinality(db.jmessages) >= 2
    /\ last.op = "change_message"
    /\ last.exc = "none"

\* C2: of two committed transactions that each dirtied a collection, the
\* later one stamped a strictly greater modseq than the earlier one.
C2_ModseqIncreases ==
    \A i, j \in 1..Len(committed) :
        i < j => \A a \in committed[i], b \in committed[j] : a[2] < b[2]

\* The row a dmaybeupdate or dmaybedirty call names already holds the
\* value the call asks for.
NoOpDiff(column) ==
    \E row \in db.jmessages :
        /\ row.msgid = last'.args[1]
        /\ row[column] = last'.args[2]

\* C3: dmaybeupdate and dmaybedirty asked for the values an existing row
\* already holds execute no write, allocate no modseq, record no touched
\* table and leave the row (its jmodseq included) as it is.
C3_NoOpDiffIsSilent ==
    [][(\/ Called("dmaybeupdate") /\ NoOpDiff("inReplyTo")
        \/ Called("dmaybedirty") /\ NoOpDiff("isUnread"))
       => /\ last'.writes = 0
          /\ modseq' = modseq
          /\ tables' = tables
          /\ txn_dirty' = txn_dirty
          /\ db' = db]_vars

\* C4: after a commit every mailbox's totalEmails is the number of distinct
\* live messages with a live membership row in it, and its unreadEmails the
\* number of those that are unread.
C4_CountersMatchAfterCommit ==
    (last.op = "commit" /\ last.exc = "none" /\ ~in_transaction)
    => \A b \in db.jmailboxes :
          /\ b.totalEmails = CountTotalEmails(db, b.jmailboxid)
          /\ b.unreadEmails = CountUnreadEmails(db, b.jmailboxid)

\* The identifiers of the live messages of a thread.
LiveMembers(thrid) ==
    {m.msgid : m \in {x \in db.jmessages : x.thrid = thrid /\ x.deleted = 0}}

\* C5: after add_message, change_message or delete_message the list stored
\* for the message's thread holds every live message of the thread, nothing
\* else, and each one once.
C5_ThreadListsEachMemberOnce ==
    (last.op \in {"add_message", "change_message", "delete_message"}
     /\ last.exc = "none")
    => \A m \in db.jmessages :
          m.msgid = last.args[1] =>
              \E t \in db.jthreads :
                  /\ t.thrid = m.thrid
                  /\ Range(t.data) = LiveMembers(m.thrid)
                  /\ Len(t.data) = Cardinality(LiveMembers(m.thrid))

\* C6: in every stored thread list the non-drafts stand once each in stored
\* (rowid) order; the drafts replying to a non-draft's messageId fill the
\* places right after it, in stored order; every other draft stands once,
\* behind every non-draft, and those drafts are in stored order.
C6_ThreadOrder ==
    \A t \in db.jthreads :
        LET live == {m \in db.jmessages : m.thrid = t.thrid /\ m.deleted = 0}
            nondrafts == {m \in live : ~m.isDraft}
            Replies(n) ==
                {d \in live : /\ d.isDraft
                              /\ d.inReplyTo # None
                              /\ d.inReplyTo = n.messageId}
            others == {d \in live : /\ d.isDraft
                                    /\ \A n \in nondrafts : d \notin Replies(n)}
            Places(m) == {i \in 1..Len(t.data) : t.data[i] = m.msgid}
            Before(a, b) == \A i \in Places(a), j \in Places(b) : i < j
            Rank(n, d) == Cardinality({e \in Replies(n) : e.rowid <= d.rowid})
        IN /\ \A m \in nondrafts \cup others : Cardinality(Places(m)) = 1
           /\ \A a, b \in nondrafts : a.rowid < b.rowid => Before(a, b)
           /\ \A n \in nondrafts :
                 \A d \in Replies(n), i \in Places(n) :
                    /\ i + Rank(n, d) <= Len(t.data)
                    /\ t.data[i + Rank(n, d)] = d.msgid
           /\ \A n \in nondrafts, o \in others : Before(n, o)
           /\ \A a, b \in others : a.rowid < b.rowid => Before(a, b)

\* C6 happens: non-drafts 1 and 2, draft 3 replying to 1, recomputed to
\* [1, 3, 2].
C6_Witness ==
    /\ last.op = "touch_thread_by_msgid"
    /\ last.exc = "none"
    /\ \E t \in db.jthreads : t.data = <<1, 3, 2>>
    /\ \E n \in db.jmessages, d \in db.jmessages :
          /\ n.msgid = 1 /\ ~n.isDraft /\ n.deleted = 0
          /\ d.msgid = 3 /\ d.isDraft /\ d.deleted = 0
          /\ d.inReplyTo # None
          /\ d.inReplyTo = n.messageId

\* C7: a rollback or reset that ends a transaction leaves every record and
\* the persisted high-water modseq as of the last COMMIT, the pending
\* recount set empty as construction and commit leave it, and no modseq
\* allocated.
C7_RollbackRestores ==
    [][((Called("rollback") \/ Called("reset")) /\ in_transaction)
       => /\ db' = disk
          /\ disk' = disk
          /\ updated_mailbox_counts' = << >>
          /\ modseq' = 0]_vars

\* The groups of the tables dirtied since the last transaction ended.
TxnGroups == UNION {TABLE2GROUPS(table) : table \in TxnTables}

\* A commit call that ends a transaction.
Committing == Called("commit") /\ in_transaction

\* C8: after the commit of a transaction that dirtied collections the
\* account row's highModSeq is the transaction's modseq and so is the state
\* column of every group of a dirtied collection, with or without a
\* callback, backfilling or not.
C8_CommitPublishesState ==
    [][(Committing /\ txn_dirty # {} /\ last'.exc = "none")
       => /\ disk'.account # {}
          /\ \A row \in disk'.account :
                /\ {row.highModSeq} = TxnValues
                /\ \A g \in TxnGroups :
                      /\ StateColumn(g) \in DOMAIN row
                      /\ {row[StateColumn(g)]} = TxnValues]_vars

\* C9: a commit invokes the registered callback at most once; exactly once,
\* with the transaction's modseq, when the transaction dirtied a collection
\* and is no backfill; never when it is a backfill.
C9_CallbackOncePerCommit ==
    [][Committing
       => /\ Len(last'.cb) <= 1
          /\ (change_cb /\ ~backfilling /\ txn_dirty # {})
                => /\ Len(last'.cb) = 1
                   /\ {last'.cb[1].state} = TxnValues
          /\ backfilling => last'.cb = << >>]_vars

\* C10: the commit of a transaction that dirtied nothing (and has no
\* recount pending) invokes no callback and writes nothing; any other
\* commit's callback gets a map whose keys are the groups of the tables
\* dirtied in that transaction.
C10_NotifiesOnlyThisTransaction ==
    [][Committing
       => /\ (txn_dirty = {} /\ updated_mailbox_counts = << >>)
                => /\ last'.cb = << >>
                   /\ last'.writes = 0
                   /\ disk'.account = db.account
          /\ (txn_dirty # {} /\ updated_mailbox_counts = << >>
              /\ last'.cb # << >>)
                => DOMAIN last'.cb[1].map = TxnGroups]_vars

\* The membership row a delete_message_from_mailbox call names is already
\* removed.
AlreadyRemoved ==
    \E mm \in db.jmessagemap :
        /\ mm.msgid = last'.args[1]
        /\ mm.jmailboxid = last'.args[2]
        /\ mm.deleted # 0

\* C11: delete_message_from_mailbox for a membership that is already
\* removed raises nothing, allocates no modseq and leaves the membership
\* rows (deleted marker and jmodseq) as they are.
C11_RemovingTwiceIsNoOp ==
    [][(Called("delete_message_from_mailbox") /\ AlreadyRemoved)
       => /\ last'.exc = "none"
          /\ modseq' = modseq
          /\ txn_dirty' = txn_dirty
          /\ db'.jmessagemap = db.jmessagemap]_vars

\* C12: every message's thread has a record, kept when its messages are
\* deleted; a thread record is marked deleted with an empty list exactly
\* when no live message points at it, and otherwise is unmarked and lists
\* its live messages.
C12_ThreadDeletedIffNoLiveMember ==
    /\ \A m \in db.jmessages : \E t \in db.jthreads : t.thrid = m.thrid
    /\ \A t \in db.jthreads :
          IF LiveMembers(t.thrid) = {}
          THEN t.deleted = 1 /\ t.data = << >>
          ELSE t.deleted = 0 /\ Range(t.data) = LiveMembers(t.thrid)

\* C12 happens: the only message of a thread was deleted, and a message
\* added to the thread afterwards is listed by the retained record.
C12_Witness ==
    /\ last.op = "add_message"
    /\ last.exc = "none"
    /\ \E m \in db.jmessages : m.msgid = 1 /\ m.deleted # 0 /\ m.thrid = "t1"
    /\ \E t \in db.jthreads :
          t.thrid = "t1" /\ t.deleted = 0 /\ t.data = <<2>>

\* The rows add_message has just written for message m are the only
\* uncommitted change: message m, its memberships in a and b, and the
\* record of its thread, which no earlier message pointed at.
OnlyAdded(m) ==
    /\ m \in db.jmessages
    /\ db.jmessages \ {m} = disk.jmessages
    /\ {mm \in db.jmessagemap : mm.msgid # m.msgid} = disk.jmessagemap
    /\ {mm.jmailboxid : mm \in {x \in db.jmessagemap : x.msgid = m.msgid}}
          = {"a", "b"}
    /\ db.jmailboxes = disk.jmailboxes
    /\ {t \in db.jthreads : t.thrid # m.thrid} = disk.jthreads

TotalEmails(d, jmailboxid) ==
    {b.totalEmails : b \in {x \in d.jmailboxes : x.jmailboxid = jmailboxid}}

\* C13: add_message(m, [a, b]) of a new message in a new thread, followed
\* by commit, raises totalEmails of a and of b by one each, leaves the
\* other mailboxes' totalEmails as they were, and leaves the thread's list
\* [m]; when commit returns the same is on disk.
C13_AddToTwoMailboxes ==
    (last.op = "add_message" /\ last.exc = "none"
     /\ last.args[2] = {"a", "b"} /\ in_transaction)
    => \A m \in db.jmessages :
          (m.msgid = last.args[1] /\ OnlyAdded(m))
          => LET s == commit(Cur)
             IN /\ \A id \in {"a", "b"} :
                      TotalEmails(s.db, id)
                          = {n + 1 : n \in TotalEmails(db, id)}
                /\ \A id \in ProvisionedIds \ {"a", "b"} :
                      TotalEmails(s.db, id) = TotalEmails(db, id)
                /\ {t.data : t \in {x \in s.db.jthreads : x.thrid = m.thrid}}
                      = {<<m.msgid>>}
                /\ Ok(s) => s.disk = s.db

\* C14: touch_thread_by_msgid for an identifier no message record carries
\* returns silently: no error, no write, no modseq, nothing changed.
C14_TouchMissingIsSilent ==
    [][(Called("touch_thread_by_msgid")
        /\ \A m \in db.jmessages : m.msgid # last'.args[1])
       => /\ last'.exc = "none"
          /\ last'.writes = 0
          /\ modseq' = modseq
          /\ txn_dirty' = txn_dirty
          /\ db' = db]_vars

\* C15: every live membership row names a message that exists and is
\* live and a mailbox that exists and is live.
C15_LiveMembershipIsOfLiveRows ==
    \A mm \in db.jmessagemap :
        mm.deleted = 0
        => /\ \E m \in db.jmessages : m.msgid = mm.msgid /\ m.deleted = 0
           /\ \E b \in db.jmailboxes :
                 b.jmailboxid = mm.jmailboxid /\ b.deleted = 0

\* C16: commit, rollback and reset called while no transaction is open
\* raise an error.
C16_NoTransactionIsAnError ==
    [][((Called("commit") \/ Called("rollback") \/ Called("reset"))
        /\ ~in_transaction)
       => last'.exc # "none"]_vars

\* The counters of a mailbox as stored in d are those a recount over d
\* gives.
Recounted(d, jmailboxid) ==
    \A b \in d.jmailboxes :
        b.jmailboxid = jmailboxid
        => /\ b.totalEmails = CountTotalEmails(d, jmailboxid)
           /\ b.unreadEmails = CountUnreadEmails(d, jmailboxid)
           /\ b.totalThreads = CountTotalThreads(d, jmailboxid)

\* C17: when commit invokes the callback, every mailbox that was pending
\* has been recounted, the pending set is empty, the account row holds the
\* transaction's modseq in highModSeq and in the state column of every
\* notified group, and nothing is on disk yet; when commit has returned
\* the pending set is empty.
C17_CommitOrder ==
    [][Called("commit")
       => /\ \A i \in 1..Len(last'.cb) :
                LET call == last'.cb[i]
                    store == call.store
                IN /\ \A b \in DOMAIN updated_mailbox_counts :
                         Recounted(store.db, b)
                   /\ store.updated_mailbox_counts = << >>
                   /\ \A row \in store.db.account :
                         /\ row.highModSeq = call.state
                         /\ \A g \in DOMAIN call.map :
                               row[StateColumn(g)] = call.state
                   /\ store.in_transaction
                   /\ store.disk = disk
          /\ last'.exc = "none" => updated_mailbox_counts' = << >>]_vars

\* The mailboxes message msgid has a live membership row in, in table d.
LiveMailboxes(rows, msgid) ==
    {mm.jmailboxid : mm \in {x \in rows : x.msgid = msgid /\ x.deleted = 0}}

\* The change_message call of this step changed the keywords, the draft
\* flag or the unread flag of its message.
KeywordsChanged ==
    \E m \in db.jmessages, n \in db'.jmessages :
        /\ m.msgid = last'.args[1]
        /\ n.msgid = m.msgid
        /\ \/ n.keywords # m.keywords
           \/ n.isDraft # m.isDraft
           \/ n.isUnread # m.isUnread

\* C18: change_message registers a mailbox that the message was in and
\* stays in exactly when the call changed a keyword-derived field of the
\* message, and raises nothing.
C18_KeptMailboxRecountedIffChanged ==
    [][Called("change_message")
       => \A b \in LiveMailboxes(db.jmessagemap, last'.args[1])
                      \cap last'.args[2] :
             IF KeywordsChanged
             THEN /\ last'.exc = "none"
                  /\ b \in DOMAIN updated_mailbox_counts'
             ELSE b \in DOMAIN updated_mailbox_counts'
                     <=> b \in DOMAIN updated_mailbox_counts]_vars

\* C19: after change_message(m, data, newids) on a live message the
\* mailboxes m has a live membership in are newids, and every mailbox
\* added or removed is registered for recount.
C19_MembershipBecomesNewIds ==
    [][(Called("change_message")
        /\ \E m \in db.jmessages : m.msgid = last'.args[1] /\ m.deleted = 0)
       => LET old == LiveMailboxes(db.jmessagemap, last'.args[1])
              newids == last'.args[2]
          IN /\ last'.exc = "none"
             /\ LiveMailboxes(db'.jmessagemap, last'.args[1]) = newids
             /\ (old \ newids) \cup (newids \ old)
                   \subseteq DOMAIN updated_mailbox_counts']_vars

\* C19 happens: committed message 1 was moved from a to b: its membership
\* in a is soft-deleted, that in b is live, both are pending.
C19_Witness ==
    /\ last.op = "change_message"
    /\ last.exc = "none"
    /\ last.args = <<1, {"b"}>>
    /\ \E mm \in disk.jmessagemap :
          mm.msgid = 1 /\ mm.jmailboxid = "a" /\ mm.deleted = 0
    /\ \E mm \in db.jmessagemap :
          mm.msgid = 1 /\ mm.jmailboxid = "a" /\ mm.deleted # 0
    /\ LiveMailboxes(db.jmessagemap, 1) = {"b"}
    /\ DOMAIN updated_mailbox_counts = {"a", "b"}

\* C20: dmaybedirty returns a true value exactly when a requested field
\* differed from the row's and was written.
C20_ReturnsWhetherChanged ==
    [][Called("dmaybedirty")
       => (last'.truthy
           <=> \E row \in db.jmessages :
                  /\ row.msgid = last'.args[1]
                  /\ row.isUnread # last'.args[2])]_vars

\* The number of threads that have a live message in the mailbox and an
\* unread live message in that same mailbox, in table d.
ThreadsUnreadIn(d, jmailboxid) ==
    Cardinality({m.thrid : m \in
        {x \in LiveIn(d, jmailboxid) :
            \E u \in LiveIn(d, jmailboxid) :
                u.thrid = x.thrid /\ u.isUnread}})

\* C21: the totalThreads a commit writes for a pending mailbox is the
\* number of distinct threads with a live message in that mailbox and an
\* unread live message in that same mailbox; an unread message of the
\* thread that lives only in another mailbox does not count.
C21_TotalThreadsOfOwnMailbox ==
    [][(Committing /\ last'.exc = "none")
       => \A b \in db'.jmailboxes :
             b.jmailboxid \in DOMAIN updated_mailbox_counts
             => b.totalThreads = ThreadsUnreadIn(db', b.jmailboxid)]_vars

\* C22: delete_message on a live message marks it deleted, leaves no live
\* membership row of it, registers every mailbox that held one for
\* recount and takes it off its thread's list.
C22_DeleteMessageRemovesEverywhere ==
    [][(Called("delete_message")
        /\ \E m \in db.jmessages : m.msgid = last'.args[1] /\ m.deleted = 0)
       => LET msgid == last'.args[1]
          IN /\ \A m \in db'.jmessages :
                   m.msgid = msgid
                   => /\ m.deleted # 0
                      /\ \A t \in db'.jthreads :
                            t.thrid = m.thrid => msgid \notin Range(t.data)
             /\ LiveMailboxes(db'.jmessagemap, msgid) = {}
             /\ LiveMailboxes(db.jmessagemap, msgid)
                   \subseteq DOMAIN updated_mailbox_counts']_vars

\* C22 happens: committed message 1, live in a and b, was deleted: it and
\* both memberships are marked, a and b are pending and its thread lists
\* only the other message.
C22_Witness ==
    /\ last.op = "delete_message"
    /\ last.exc = "none"
    /\ last.args = <<1>>
    /\ \E m \in disk.jmessages : m.msgid = 1 /\ m.deleted = 0
    /\ LiveMailboxes(disk.jmessagemap, 1) = {"a", "b"}
    /\ \E m \in db.jmessages :
          /\ m.msgid = 1
          /\ m.deleted # 0
          /\ \E t \in db.jthreads : t.thrid = m.thrid /\ t.data = <<2>>
    /\ LiveMailboxes(db.jmessagemap, 1) = {}
    /\ DOMAIN updated_mailbox_counts = {"a", "b"}

====
